---- MODULE Spec2Model ----
(***************************************************************************)
(* git_doc_mapper.py: the file map (load, validation, template creation),  *)
(* the push orchestration (commit gate, send loop, remap, tag) and the     *)
(* show orchestration, as one state machine over one invocation of main(). *)
(* SpecUnlink adds an operator who removes files of the working tree after *)
(* the load; SpecCalls calls the functions that depend on their arguments  *)
(* only (the query builder, URL validation, response normalization,        *)
(* map_has_all_targets) on their own.                                      *)
(* SpecLocalDir is a run for one target whose module directory may be the  *)
(* directory under the working-tree root that the mirror copies from.      *)
(*                                                                         *)
(* Python dicts keep insertion order; they are modelled as sequences of    *)
(* <<key, value>> pairs with distinct keys.                                *)
(***************************************************************************)
EXTENDS Integers, Sequences, FiniteSets, TLC

\* ------------------------------------------------------------------ bounds
\* Largest number of entries in the body of one submit response.
MaxDocs == 2
\* Largest number of files / directories missing from disk at start.
MaxMissing == 1
\* Largest number of add_column_spec / add_attribute calls on one query.
MaxAdds == 4
\* Largest number of "/" and pieces of segment text in the path of a URL.
MaxPath == 4

\* ------------------------------------------------------ ordered dictionaries
Keys(d) == {d[k][1] : k \in DOMAIN d}

HasKey(d, key) == \E k \in DOMAIN d : d[k][1] = key

Get(d, key) == d[CHOOSE k \in DOMAIN d : d[k][1] = key][2]

\* d[key] = val : an existing key keeps its position, a new key is appended
Put(d, key, val) ==
    IF HasKey(d, key)
    THEN [k \in DOMAIN d |-> IF d[k][1] = key THEN <<key, val>> ELSE d[k]]
    ELSE Append(d, <<key, val>>)

KeyList(d) == [k \in DOMAIN d |-> d[k][1]]

\* sequences over S without repetition, of length lo..hi
DistinctSeqs(S, lo, hi) ==
    {s \in UNION {[1..n -> S] : n \in lo..hi} :
        \A a, b \in DOMAIN s : a # b => s[a] # s[b]}

Min(S) == CHOOSE x \in S : \A y \in S : x <= y

\* ------------------------------------------------------------ the environment
\* target names configured in config.ini [urls] (the --targets choices)
ConfigTargets == {"A", "B"}

\* files of the working tree that a document profile may name
Filenames == {"f1", "f2"}

\* the working-tree root (git rev-parse --show-toplevel)
tldir == "/repo"

\* Path(dirname).name
PathName(dirname) ==
    CASE dirname = "/mnt/A/modules" -> "modules"
      [] dirname = "/mnt/B/modules" -> "modules"
      [] dirname = "/repo/modules" -> "modules"
      [] OTHER -> dirname

\* Path(tldir, name)
LocalPath(name) == tldir \o "/" \o name

\* directories of the model's filesystem
DirPaths == {"/mnt/A/modules", "/mnt/B/modules", LocalPath("modules")}

\* the _module_directory a target may configure ("" : null)
ModuleDirectoryOf(target) ==
    IF target = "A" THEN "/mnt/A/modules" ELSE "/mnt/B/modules"

\* git rev-parse HEAD
current_sha == "sha1"

\* _document_profiles : filename -> document id
ProfileChoices ==
    { << <<"f1", "d1">> >>,
      << <<"f1", "d1">>, <<"f2", "d2">> >>,
      << <<"f1", "d1">>, <<"f2", "d1">> >> }

TargetRecords(target) ==
    [_document_profiles : ProfileChoices,
     _module_directory : {"", ModuleDirectoryOf(target)}]

\* the "_targets" object of a map document: target -> target record
RECURSIVE MapsOver(_)
MapsOver(names) ==
    IF names = <<>> THEN {<<>>}
    ELSE {<<<<names[1], r>>>> \o m :
            r \in TargetRecords(names[1]), m \in MapsOver(Tail(names))}

FileMaps ==
    MapsOver(<<>>) \cup MapsOver(<<"A">>) \cup MapsOver(<<"B">>) \cup MapsOver(<<"A", "B">>)

\* the --targets of one invocation, as the keys of api_connections
RequestChoices == {<<"A">>, <<"A", "B">>}

\* FileMap._get_filemap_template
filemap_template ==
    << <<"<target name>",
         [_document_profiles |-> << <<"<filename>", "<document profile id>">> >>,
          _module_directory |-> "<module directory path>"]>> >>

\* exceptions: kind "" is "no exception"
NoError == [kind |-> "", what |-> "", name |-> "", target |-> ""]

Error(kind, what, name, target) ==
    [kind |-> kind, what |-> what, name |-> name, target |-> target]

\* --------------------------------------------------------------- responses
\* A normalized response body (APIAdaptor._parse_contents): None, a text, or
\* a parsed JSON object, here docId -> version descriptor.  "unbound" is a
\* local variable that was never assigned.
NoneValue == [kind |-> "None", body |-> <<>>]

TextValue == [kind |-> "text", body |-> <<>>]

DictValue(d) == [kind |-> "dict", body |-> d]

Unbound == [kind |-> "unbound", body |-> <<>>]

\* keys a remote may answer with: the ids of the profiles, and a key equal to
\* a local filename
ResponseKeys == {"d1", "d2", "f1"}

\* the k-th entry of a response body carries version descriptor k
DocMaps ==
    {[k \in DOMAIN ks |-> <<ks[k], k>>] : ks \in DistinctSeqs(ResponseKeys, 0, MaxDocs)}

Contents == {NoneValue, TextValue} \cup {DictValue(d) : d \in DocMaps}

\* Python truthiness of a normalized body
Truthy(value) ==
    \/ value.kind = "text"
    \/ value.kind = "dict" /\ Len(value.body) > 0

\* ------------------------------------------------------------------- state
VARIABLES
    pc,                 \* position in main()
    command,            \* args.command
    targets,            \* keys of Command.api_connections, in order
    allow_uncommitted,  \* PushCommand.allow_uncommitted
    uncommitted,        \* git status --porcelain is not empty
    mapDoc,             \* the map document on disk
    treeFiles,          \* files that exist under the working-tree root
    existingDirs,       \* directories that exist
    dirEntries,         \* directory -> names of its entries
    filemap,            \* FileMap.filemap
    raised,             \* the exception that ended load or the run
    templateAnswer,     \* the operator's answer to the template prompt
    i,                  \* index of the current target in the loop
    response,           \* local `response` of _send_all
    mapped_files,       \* local `mapped_files` of _post_files_to_target
    target_responses,   \* local `target_responses`
    processed_responses,\* result of _remap_target_responses
    j,                  \* index of the current file in show's inner loop
    version_map,        \* local `version_map` of show
    effects,            \* remote requests, file operations and git tags, in order
    call,               \* a library function called on its own, with its arguments
    returned            \* what that call returned or raised

vars == <<pc, command, targets, allow_uncommitted, uncommitted, mapDoc, treeFiles,
          existingDirs, dirEntries, filemap, raised, templateAnswer, i, response,
          mapped_files, target_responses, processed_responses, j, version_map,
          effects, call, returned>>

\* what a run of main() is given and never assigns
env == <<command, targets, allow_uncommitted, uncommitted, call, returned>>
disk == <<mapDoc, treeFiles, existingDirs, dirEntries>>
locals == <<i, response, mapped_files, target_responses, processed_responses,
            j, version_map>>

AbsentDoc == [present |-> FALSE, targets |-> <<>>]

NotLoaded == [loaded |-> FALSE, targets |-> <<>>]

\* no library function is called on its own
NoCall == [fn |-> "none"]

\* what the directories hold before the run
InitialEntries(dir) ==
    IF dir = LocalPath("modules") THEN {"mod.js"} ELSE {"sha0.commit"}

Init ==
    /\ pc = "main"
    /\ command \in {"push", "show"}
    /\ targets \in RequestChoices
    /\ allow_uncommitted \in (IF command = "push" THEN BOOLEAN ELSE {FALSE})
    /\ uncommitted \in (IF command = "push" THEN BOOLEAN ELSE {FALSE})
    /\ mapDoc \in {AbsentDoc} \cup {[present |-> TRUE, targets |-> m] : m \in FileMaps}
    /\ treeFiles \in {Filenames \ gone : gone \in {g \in SUBSET Filenames : Cardinality(g) <= MaxMissing}}
    /\ existingDirs \in {DirPaths \ gone : gone \in {g \in SUBSET DirPaths : Cardinality(g) <= MaxMissing}}
    /\ dirEntries = [dir \in DirPaths |-> InitialEntries(dir)]
    /\ filemap = NotLoaded
    /\ raised = NoError
    /\ templateAnswer = "none"
    /\ i = 1
    /\ response = Unbound
    /\ mapped_files = <<>>
    /\ target_responses = <<>>
    /\ processed_responses = <<>>
    /\ j = 1
    /\ version_map = <<>>
    /\ effects = <<>>
    /\ call = NoCall
    /\ returned = NoCall

\* ------------------------------------------------------------ user prompts
Answers == {"Y", "N", ""}

\* UserInputHandler.continue_Yn: anything but N continues
continue_Yn(choice) == choice # "N"

\* UserInputHandler.continue_yN: only Y continues
continue_yN(choice) == choice = "Y"

\* ---------------------------------------------------------------- file map
\* ValidateTarget without the check of the directory under the working-tree root
ValidateTargetNoLocalCheck(target, map, files, dirs) ==
    LET document_profiles == map._document_profiles
        missing == {k \in DOMAIN document_profiles : document_profiles[k][1] \notin files}
        dirname == map._module_directory
    IN  IF missing # {}
        THEN Error("FileNotFoundError", "file", document_profiles[Min(missing)][1], target)
        ELSE IF dirname # "" /\ dirname \notin dirs
        THEN Error("FileNotFoundError", "module_directory", dirname, target)
        ELSE NoError

\* the first exception FileMap._validate_map_files raises for one target
ValidateTarget(target, map, files, dirs) ==
    LET document_profiles == map._document_profiles
        missing == {k \in DOMAIN document_profiles : document_profiles[k][1] \notin files}
        dirname == map._module_directory
        local_dirpath == LocalPath(PathName(dirname))
    IN  IF missing # {}
        THEN Error("FileNotFoundError", "file", document_profiles[Min(missing)][1], target)
        ELSE IF dirname # "" /\ dirname \notin dirs
        THEN Error("FileNotFoundError", "module_directory", dirname, target)
        ELSE IF dirname # "" /\ local_dirpath \notin dirs
        THEN Error("FileNotFoundError", "local_directory", local_dirpath, "")
        ELSE NoError

\* FileMap._validate_map_files: the exception of the first failing target
validate_map_files(map_targets, files, dirs) ==
    LET bad == {k \in DOMAIN map_targets :
                  ValidateTarget(map_targets[k][1], map_targets[k][2], files, dirs) # NoError}
    IN  IF bad = {} THEN NoError
        ELSE ValidateTarget(map_targets[Min(bad)][1], map_targets[Min(bad)][2], files, dirs)

\* main() -> FileMap.__init__ -> _load_filemap, the map document exists
load_filemap ==
    /\ pc = "main"
    /\ mapDoc.present
    /\ LET error == validate_map_files(mapDoc.targets, treeFiles, existingDirs)
       IN  IF error = NoError
           THEN /\ filemap' = [loaded |-> TRUE, targets |-> mapDoc.targets]
                /\ pc' = "execute"
                /\ UNCHANGED raised
           ELSE /\ raised' = error
                /\ pc' = "exit1"
                /\ UNCHANGED filemap
    /\ UNCHANGED <<env, disk, templateAnswer, locals, effects>>

\* create_filemap that returns the template it wrote instead of raising
create_filemap_proceeds ==
    /\ pc = "main"
    /\ ~mapDoc.present
    /\ \E answer \in Answers :
         /\ templateAnswer' = answer
         /\ IF continue_yN(answer)
            THEN /\ mapDoc' = [present |-> TRUE, targets |-> filemap_template]
                 /\ filemap' = [loaded |-> TRUE, targets |-> filemap_template]
                 /\ pc' = "execute"
                 /\ UNCHANGED raised
            ELSE /\ raised' = Error("FileNotFoundError", "map", "", "")
                 /\ pc' = "exit1"
                 /\ UNCHANGED <<mapDoc, filemap>>
    /\ UNCHANGED <<env, treeFiles, existingDirs, dirEntries, locals, effects>>

\* main() -> _load_filemap -> _create_filemap, the map document does not exist
create_filemap ==
    /\ pc = "main"
    /\ ~mapDoc.present
    /\ \E answer \in Answers :
         /\ templateAnswer' = answer
         /\ IF continue_yN(answer)
            THEN /\ mapDoc' = [present |-> TRUE, targets |-> filemap_template]
                 /\ raised' = Error("ValueError", "template", "", "")
            ELSE /\ raised' = Error("FileNotFoundError", "map", "", "")
                 /\ UNCHANGED mapDoc
    /\ pc' = "exit1"
    /\ UNCHANGED <<env, treeFiles, existingDirs, dirEntries, filemap, locals, effects>>

\* ------------------------------------------------------------ map accessors
\* FileMap.get_document_profiles; the caller has checked HasKey
get_document_profiles(map_targets, target) == Get(map_targets, target)._document_profiles

\* FileMap.get_module_directory
get_module_directory(map_targets, target) == Get(map_targets, target)._module_directory

\* what open(filepath).read() gives for a file of the working tree
FileContents(filename) == "text of " \o filename

\* get_mapped_files without the FileNotFoundError: an entry for every file of
\* the profiles, on disk or not
RECURSIVE get_mapped_files_unchecked(_, _)
get_mapped_files_unchecked(document_profiles, files) ==
    IF document_profiles = <<>> THEN <<>>
    ELSE LET n == Len(document_profiles)
             rest == get_mapped_files_unchecked(SubSeq(document_profiles, 1, n - 1), files)
             filename == document_profiles[n][1]
             doc_id == document_profiles[n][2]
         IN  Put(rest, doc_id, <<filename, FileContents(filename), "text/plain">>)

\* FileMap.get_mapped_files: doc id -> (filename, contents, 'text/plain') of
\* the files open() finds; a file that is not found is skipped
RECURSIVE get_mapped_files(_, _)
get_mapped_files(document_profiles, files) ==
    IF document_profiles = <<>> THEN <<>>
    ELSE LET n == Len(document_profiles)
             rest == get_mapped_files(SubSeq(document_profiles, 1, n - 1), files)
             filename == document_profiles[n][1]
             doc_id == document_profiles[n][2]
         IN  IF filename \in files
             THEN Put(rest, doc_id, <<filename, FileContents(filename), "text/plain">>)
             ELSE rest

\* FileMap.get_mapped_files: log.error('File was not found: ...'), once for
\* each file of the profiles that open() does not find, in their order
files_not_found(document_profiles, files) ==
    SelectSeq(KeyList(document_profiles), LAMBDA filename : filename \notin files)

\* what a call that is no remote request comes to
NoResult == [exception |-> "", message |-> "", value |-> NoneValue]

\* an effect on the world outside the process; for a remote request, `result`
\* is what the adaptor returned or raised
Effect(op, target, names, body, result) ==
    [op |-> op, target |-> target, names |-> names, body |-> body, result |-> result]

\* _send_all: log.error('Error copying module files to {target}: ...') in the
\* handler of FileNotFoundError, IsADirectoryError, NotADirectoryError, OSError
LogCopyError(log, target) == Append(log, Effect("error", target, <<>>, <<>>, NoResult))

\* the log entries of get_mapped_files for the files it did not find
LogNotFound(log, target, filenames) ==
    log \o [k \in DOMAIN filenames |->
               Effect("not_found", target, <<filenames[k]>>, <<>>, NoResult)]

\* main(): an exception leaves command.execute()
Crash(kind, target) ==
    /\ pc' = "crashed"
    /\ raised' = Error(kind, "execute", "", target)

\* ------------------------------------------------------------------- push
\* Command.has_uncommitted_changes
has_uncommitted_changes == uncommitted

\* _commit_state_is_valid with the override read the wrong way round
commit_state_inverted == ~(has_uncommitted_changes /\ allow_uncommitted)

\* PushCommand._commit_state_is_valid
commit_state_is_valid == ~(has_uncommitted_changes /\ ~allow_uncommitted)

\* PushCommand.execute, up to the call of _send_all
push_execute ==
    /\ pc = "execute"
    /\ command = "push"
    /\ pc' = IF commit_state_is_valid THEN "send" ELSE "done"
    /\ UNCHANGED <<env, disk, filemap, raised, templateAnswer, locals, effects>>

\* send_prompt where a declined prompt leaves the loop (break for continue)
send_prompt_decline_ends ==
    /\ pc = "send"
    /\ i <= Len(targets)
    /\ \E choice \in Answers :
         IF continue_Yn(choice)
         THEN pc' = "post" /\ UNCHANGED i
         ELSE pc' = "send" /\ i' = Len(targets) + 1
    /\ UNCHANGED <<env, disk, filemap, raised, templateAnswer, response, mapped_files,
                   target_responses, processed_responses, j, version_map, effects>>

\* _send_all: the head of the loop and the prompt
send_prompt ==
    /\ pc = "send"
    /\ i <= Len(targets)
    /\ \E choice \in Answers :
         IF continue_Yn(choice)
         THEN pc' = "post" /\ UNCHANGED i
         ELSE pc' = "send" /\ i' = i + 1
    /\ UNCHANGED <<env, disk, filemap, raised, templateAnswer, response, mapped_files,
                   target_responses, processed_responses, j, version_map, effects>>

\* post_files_read that adds client_data to the profiles of the file map
\* itself instead of to the files it materialized
post_files_read_aliased ==
    /\ pc = "post"
    /\ IF ~HasKey(filemap.targets, targets[i])
       THEN /\ Crash("AttributeError", targets[i])
            /\ UNCHANGED <<mapped_files, effects, filemap>>
       ELSE LET profiles == get_document_profiles(filemap.targets, targets[i])
                record == Get(filemap.targets, targets[i])
            IN  /\ mapped_files' = get_mapped_files(profiles, treeFiles)
                /\ filemap' =
                     [filemap EXCEPT !.targets =
                         Put(@, targets[i],
                             [record EXCEPT !._document_profiles =
                                 Put(@, "client_data", "client_data")])]
                /\ effects' = LogNotFound(effects, targets[i],
                                          files_not_found(profiles, treeFiles))
                /\ pc' = "submit"
                /\ UNCHANGED raised
    /\ UNCHANGED <<env, disk, templateAnswer, i, response, target_responses,
                   processed_responses, j, version_map>>

\* _post_files_to_target, up to the request: profiles and mapped files.
\* open() may raise an OSError other than FileNotFoundError (a permission
\* error, a directory in the file's place), which _send_all catches.
post_files_read ==
    /\ pc = "post"
    /\ IF ~HasKey(filemap.targets, targets[i])
       THEN /\ Crash("AttributeError", targets[i])
            /\ UNCHANGED <<mapped_files, effects>>
       ELSE \E oserror \in BOOLEAN :
              IF oserror
              THEN /\ pc' = "record"
                   /\ effects' = LogCopyError(effects, targets[i])
                   /\ UNCHANGED <<mapped_files, raised>>
              ELSE LET profiles == get_document_profiles(filemap.targets, targets[i])
                   IN  /\ mapped_files' =
                            Put(get_mapped_files(profiles, treeFiles), "client_data",
                                <<"", "client_data", "application/json">>)
                       /\ effects' = LogNotFound(effects, targets[i],
                                                 files_not_found(profiles, treeFiles))
                       /\ pc' = "submit"
                       /\ UNCHANGED raised
    /\ UNCHANGED <<env, disk, filemap, templateAnswer, i, response, target_responses,
                   processed_responses, j, version_map>>

\* _response_hander with no branch for status 401
response_hander_no_401(status_code, contents) ==
    IF status_code >= 200 /\ status_code <= 299
    THEN [exception |-> "", message |-> "", value |-> contents]
    ELSE IF status_code = 400
    THEN [exception |-> "HTTPError", message |-> "Bad request: HTTP Error 400",
          value |-> contents]
    ELSE [exception |-> "RequestException", message |-> "Response error: Status code",
          value |-> contents]

\* APIAdaptor._response_hander: the value returned, or the exception raised
\* with the head of its message and the contents the message ends with
response_hander(status_code, contents) ==
    IF status_code >= 200 /\ status_code <= 299
    THEN [exception |-> "", message |-> "", value |-> contents]
    ELSE IF status_code = 400
    THEN [exception |-> "HTTPError", message |-> "Bad request: HTTP Error 400",
          value |-> contents]
    ELSE IF status_code = 401
    THEN [exception |-> "HTTPError", message |-> "Invalid auth: HTTP Error 401",
          value |-> contents]
    ELSE [exception |-> "RequestException", message |-> "Response error: Status code",
          value |-> contents]

\* what one HTTP request can come to: no connection, or a status and a body
Outcomes(bodies) ==
    {[connected |-> FALSE, status_code |-> 0, contents |-> NoneValue]}
    \cup {[connected |-> TRUE, status_code |-> s, contents |-> NoneValue] : s \in {400, 401, 500}}
    \cup {[connected |-> TRUE, status_code |-> 200, contents |-> c] : c \in bodies}

\* APIAdaptor.post_files / find_list: requests raises when there is no connection
Request(outcome) ==
    IF outcome.connected
    THEN response_hander(outcome.status_code, outcome.contents)
    ELSE [exception |-> "ConnectionError", message |-> "", value |-> NoneValue]

\* _post_files_to_target: the request; a RequestException gives None
post_files_return(result) ==
    IF result.exception = "" THEN result.value ELSE NoneValue

\* post_files_submit that sends the request once more after a request error
post_files_submit_retry ==
    /\ pc = "submit"
    /\ \E outcome \in Outcomes(Contents) :
         /\ response' = post_files_return(Request(outcome))
         /\ effects' = Append(effects,
                              Effect("submit", targets[i], <<>>, mapped_files, Request(outcome)))
         /\ pc' = IF /\ Request(outcome).exception # ""
                     /\ \A k \in DOMAIN effects : effects[k].target # targets[i]
                  THEN "submit" ELSE "remove"
    /\ UNCHANGED <<env, disk, filemap, raised, templateAnswer, i, mapped_files,
                   target_responses, processed_responses, j, version_map>>

\* post_files_submit where a request error ends the send step of the target
\* (the mirror inside the guard of a response)
post_files_submit_mirror_on_success ==
    /\ pc = "submit"
    /\ \E outcome \in Outcomes(Contents) :
         /\ response' = post_files_return(Request(outcome))
         /\ effects' = Append(effects,
                              Effect("submit", targets[i], <<>>, mapped_files, Request(outcome)))
         /\ pc' = IF Request(outcome).exception # "" THEN "record" ELSE "remove"
    /\ UNCHANGED <<env, disk, filemap, raised, templateAnswer, i, mapped_files,
                   target_responses, processed_responses, j, version_map>>

\* _post_files_to_target, the request, and the assignment to `response`
post_files_submit ==
    /\ pc = "submit"
    /\ \E outcome \in Outcomes(Contents) :
         /\ response' = post_files_return(Request(outcome))
         /\ effects' = Append(effects,
                              Effect("submit", targets[i], <<>>, mapped_files, Request(outcome)))
    /\ pc' = "remove"
    /\ UNCHANGED <<env, disk, filemap, raised, templateAnswer, i, mapped_files,
                   target_responses, processed_responses, j, version_map>>

\* copy_files_remove that leaves the .commit files of earlier pushes in place
copy_files_remove_keeps_markers ==
    /\ pc = "remove"
    /\ LET target_dir == get_module_directory(filemap.targets, targets[i])
       IN  IF target_dir = ""
           THEN /\ pc' = "record"
                /\ UNCHANGED <<dirEntries, effects>>
           ELSE /\ dirEntries' = [dirEntries EXCEPT ![target_dir] = @ \cap {"sha0.commit"}]
                /\ pc' = "copy"
                /\ effects' = Append(effects,
                                     Effect("remove", targets[i], <<>>, <<>>, NoResult))
    /\ UNCHANGED <<env, mapDoc, treeFiles, existingDirs, filemap, raised, templateAnswer,
                   locals>>

\* copy_files_remove that goes on to the copy after a failed removal
copy_files_remove_goes_on ==
    /\ pc = "remove"
    /\ LET target_dir == get_module_directory(filemap.targets, targets[i])
       IN  IF target_dir = ""
           THEN /\ pc' = "record"
                /\ UNCHANGED <<dirEntries, effects>>
           ELSE \E left \in SUBSET dirEntries[target_dir] :
                  LET removed == Append(effects,
                                        Effect("remove", targets[i], <<>>, <<>>, NoResult))
                  IN  /\ dirEntries' = [dirEntries EXCEPT ![target_dir] = left]
                      /\ pc' = "copy"
                      /\ effects' = IF left = {} THEN removed
                                    ELSE LogCopyError(removed, targets[i])
    /\ UNCHANGED <<env, mapDoc, treeFiles, existingDirs, filemap, raised, templateAnswer,
                   locals>>

\* _copy_files_to_target: no module directory, or the removal of the entries
\* of the target directory; an OSError leaves some of them and ends the copy
copy_files_remove ==
    /\ pc = "remove"
    /\ LET target_dir == get_module_directory(filemap.targets, targets[i])
       IN  IF target_dir = ""
           THEN /\ pc' = "record"
                /\ UNCHANGED <<dirEntries, effects>>
           ELSE \E left \in SUBSET dirEntries[target_dir] :
                  LET removed == Append(effects,
                                        Effect("remove", targets[i], <<>>, <<>>, NoResult))
                  IN  /\ dirEntries' = [dirEntries EXCEPT ![target_dir] = left]
                      /\ pc' = IF left = {} THEN "copy" ELSE "record"
                      /\ effects' = IF left = {} THEN removed
                                    ELSE LogCopyError(removed, targets[i])
    /\ UNCHANGED <<env, mapDoc, treeFiles, existingDirs, filemap, raised, templateAnswer,
                   locals>>

\* _copy_files_to_target: the copy of the local subtree; an OSError ends it
\* before every item is copied
copy_files_copy ==
    /\ pc = "copy"
    /\ LET target_dir == get_module_directory(filemap.targets, targets[i])
           source_dir == LocalPath(PathName(target_dir))
           started == Append(effects, Effect("copy", targets[i], <<>>, <<>>, NoResult))
       IN  \E copied \in SUBSET dirEntries[source_dir] :
             /\ dirEntries' = [dirEntries EXCEPT ![target_dir] = @ \cup copied]
             /\ pc' = IF copied = dirEntries[source_dir] THEN "marker" ELSE "record"
             /\ effects' = IF copied = dirEntries[source_dir] THEN started
                           ELSE LogCopyError(started, targets[i])
    /\ UNCHANGED <<env, mapDoc, treeFiles, existingDirs, filemap, raised, templateAnswer,
                   locals>>

\* _copy_files_to_target: the <sha>.commit file; open() may raise an OSError
copy_files_marker ==
    /\ pc = "marker"
    /\ LET target_dir == get_module_directory(filemap.targets, targets[i])
       IN  \E oserror \in BOOLEAN :
             IF oserror
             THEN /\ effects' = LogCopyError(effects, targets[i])
                  /\ UNCHANGED dirEntries
             ELSE /\ dirEntries' =
                       [dirEntries EXCEPT ![target_dir] = @ \cup {current_sha \o ".commit"}]
                  /\ effects' = Append(effects, Effect("marker", targets[i], <<>>, <<>>, NoResult))
    /\ pc' = "record"
    /\ UNCHANGED <<env, mapDoc, treeFiles, existingDirs, filemap, raised, templateAnswer,
                   locals>>

\* _send_all: `if response:` after the try statement
send_record ==
    /\ pc = "record"
    /\ IF response = Unbound
       THEN /\ Crash("UnboundLocalError", targets[i])
            /\ UNCHANGED <<i, target_responses>>
       ELSE /\ target_responses' =
                 IF Truthy(response)
                 THEN Put(target_responses, targets[i], response)
                 ELSE target_responses
            /\ i' = i + 1
            /\ pc' = "send"
            /\ UNCHANGED raised
    /\ UNCHANGED <<env, disk, filemap, templateAnswer, response, mapped_files,
                   processed_responses, j, version_map, effects>>

\* send_return with the return statement inside the loop
send_return_early ==
    /\ pc = "send"
    /\ pc' = IF target_responses # <<>> THEN "remap" ELSE "done"
    /\ UNCHANGED <<env, disk, filemap, raised, templateAnswer, locals, effects>>

\* _send_all returns; execute: `if target_responses:`
send_return ==
    /\ pc = "send"
    /\ i > Len(targets)
    /\ pc' = IF target_responses # <<>> THEN "remap" ELSE "done"
    /\ UNCHANGED <<env, disk, filemap, raised, templateAnswer, locals, effects>>

\* reversed_profiles = {local_doc_id: filename for filename, local_doc_id in profiles.items()}
RECURSIVE reversed_profiles(_)
reversed_profiles(profiles) ==
    IF profiles = <<>> THEN <<>>
    ELSE LET n == Len(profiles)
         IN  Put(reversed_profiles(SubSeq(profiles, 1, n - 1)), profiles[n][2], profiles[n][1])

\* new_doc_map without the else branch: unknown identifiers are dropped
RECURSIVE new_doc_map_known_only(_, _)
new_doc_map_known_only(doc_map, reversed) ==
    IF doc_map = <<>> THEN <<>>
    ELSE LET n == Len(doc_map)
             rest == new_doc_map_known_only(SubSeq(doc_map, 1, n - 1), reversed)
         IN  IF HasKey(reversed, doc_map[n][1])
             THEN Put(rest, Get(reversed, doc_map[n][1]), doc_map[n][2])
             ELSE rest

\* the inner loop of _remap_target_responses: new_doc_map
RECURSIVE new_doc_map(_, _)
new_doc_map(doc_map, reversed) ==
    IF doc_map = <<>> THEN <<>>
    ELSE LET n == Len(doc_map)
             rest == new_doc_map(SubSeq(doc_map, 1, n - 1), reversed)
             doc_id == doc_map[n][1]
             doc_ver_map == doc_map[n][2]
         IN  IF HasKey(reversed, doc_id)
             THEN Put(rest, Get(reversed, doc_id), doc_ver_map)
             ELSE Put(rest, doc_id, doc_ver_map)

\* PushCommand._remap_target_responses, for responses that are all mappings
remap_responses(responses, map_targets) ==
    [k \in DOMAIN responses |->
        <<responses[k][1],
          DictValue(new_doc_map(responses[k][2].body,
                                reversed_profiles(
                                    get_document_profiles(map_targets, responses[k][1]))))>>]

\* PushCommand._remap_target_responses; a text body has no items()
remap_target_responses ==
    /\ pc = "remap"
    /\ LET texts == {k \in DOMAIN target_responses : target_responses[k][2].kind # "dict"}
       IN  IF texts # {}
           THEN /\ Crash("AttributeError", target_responses[Min(texts)][1])
                /\ UNCHANGED processed_responses
           ELSE /\ processed_responses' = remap_responses(target_responses, filemap.targets)
                /\ pc' = "tag"
                /\ UNCHANGED raised
    /\ UNCHANGED <<env, disk, filemap, templateAnswer, i, response, mapped_files,
                   target_responses, j, version_map, effects>>

\* PushCommand._create_git_tags: git tag -a push.<targets joined by ->.<now>
create_git_tags ==
    /\ pc = "tag"
    /\ effects' = Append(effects,
                         Effect("tag", "", KeyList(processed_responses), processed_responses,
                                NoResult))
    /\ pc' = "done"
    /\ UNCHANGED <<env, disk, filemap, raised, templateAnswer, locals>>

\* ------------------------------------------------- FindListQueryBuilder
\* FindListQueryBuilder.__init__(start=0, batch_size=500): the defaults
DefaultStart == 0

DefaultBatchSize == 500

\* ColumnSpecification(property, direction=SortDirectionEnum.UNSPECIFIED)
ColumnSpecification(property, direction) ==
    [property |-> property, direction |-> direction]

\* AttributeEquals(colName, value)
AttributeEquals(colName, value) ==
    [class |-> "AttributeEquals", colName |-> colName, values |-> <<value>>,
     sql_operator |-> ""]

\* AttributeSQL(colName, values, sql_operator)
AttributeSQL(colName, values, sql_operator) ==
    [class |-> "AttributeSQL", colName |-> colName, values |-> values,
     sql_operator |-> sql_operator]

\* ColumnSpecification.to_dict
ColumnToDict(col) == [property |-> col.property, direction |-> col.direction]

\* AttributeEquals.to_dict: {colName: value}; AttributeSQL.to_dict:
\* {colName: {"values": values, "sqlOperator": operator}}
AttributeToDict(attr) ==
    IF attr.class = "AttributeEquals"
    THEN [key |-> attr.colName, form |-> "value", value |-> attr.values[1],
          values |-> <<>>, sqlOperator |-> ""]
    ELSE [key |-> attr.colName, form |-> "values, sqlOperator", value |-> "",
          values |-> attr.values, sqlOperator |-> attr.sql_operator]

\* FindListQueryBuilder.__init__
FindListQueryBuilder(start, batch_size) ==
    [start |-> start, batch_size |-> batch_size, column_specifications |-> <<>>,
     attributes |-> <<>>]

\* FindListQueryBuilder.add_column_spec -> ColumnSpecificationListBuilder
add_column_spec(query, column_specification) ==
    [query EXCEPT !.column_specifications = Append(@, column_specification)]

\* add_attribute that puts the new attribute first
add_attribute_first(query, attribute) ==
    [query EXCEPT !.attributes = <<attribute>> \o @]

\* FindListQueryBuilder.add_attribute -> AttributeListBuilder
add_attribute(query, attribute) ==
    [query EXCEPT !.attributes = Append(@, attribute)]

\* FindListQueryBuilder.to_dict
to_dict(query) ==
    [start |-> query.start,
     batchSize |-> query.batch_size,
     columnSpecifications |->
        [k \in DOMAIN query.column_specifications |->
            ColumnToDict(query.column_specifications[k])],
     query |-> [attributes |-> [k \in DOMAIN query.attributes |->
                                   AttributeToDict(query.attributes[k])]]]

\* ------------------------------------------------------------------- show
\* bodies a list query may be answered with: None, a text, or an object
\* with no "results", an empty "results" or one row (batch size 1)
FindListContents ==
    {NoneValue, TextValue, DictValue(<<>>),
     DictValue(<< <<"results", <<>> >> >>),
     DictValue(<< <<"results", <<"row1">> >> >>)}

\* _get_current_versions_from_target: key_query for one document
key_query(doc_id) ==
    LET q0 == add_attribute(FindListQueryBuilder(0, 1), AttributeEquals("docId", doc_id))
        q1 == add_column_spec(q0, ColumnSpecification("docId", "UNSPECIFIED"))
        q2 == add_column_spec(q1, ColumnSpecification("docVerId", "UNSPECIFIED"))
        q3 == add_column_spec(q2, ColumnSpecification("versionLabel", "UNSPECIFIED"))
        q4 == add_column_spec(q3, ColumnSpecification("editDate", "DESCENDING"))
        q5 == add_column_spec(q4, ColumnSpecification("checkedInBy", "UNSPECIFIED"))
        q6 == add_column_spec(q5, ColumnSpecification("checkedInComment", "UNSPECIFIED"))
    IN  add_column_spec(q6, ColumnSpecification("contentUrl", "UNSPECIFIED"))

\* dto_results[0] if dto_results else None, as a sequence of at most one row
doc_ver_keys(query_results) ==
    IF HasKey(query_results.body, "results") /\ Get(query_results.body, "results") # <<>>
    THEN <<Get(query_results.body, "results")[1]>>
    ELSE <<>>

\* show_execute that enters the send loop of push
show_execute_sends ==
    /\ pc = "execute"
    /\ command = "show"
    /\ pc' = "send"
    /\ UNCHANGED <<env, disk, filemap, raised, templateAnswer, locals, effects>>

\* ShowCommand.execute, the call of _get_current_versions
show_execute ==
    /\ pc = "execute"
    /\ command = "show"
    /\ pc' = "show"
    /\ UNCHANGED <<env, disk, filemap, raised, templateAnswer, locals, effects>>

\* _get_current_versions_from_target: the profiles of the target
show_target ==
    /\ pc = "show"
    /\ i <= Len(targets)
    /\ IF ~HasKey(filemap.targets, targets[i])
       THEN /\ Crash("AttributeError", targets[i])
            /\ UNCHANGED <<j, version_map>>
       ELSE /\ version_map' = <<>>
            /\ j' = 1
            /\ pc' = "find_list"
            /\ UNCHANGED raised
    /\ UNCHANGED <<env, disk, filemap, templateAnswer, i, response, mapped_files,
                   target_responses, processed_responses, effects>>

\* _get_current_versions_from_target: the list query for one file
show_find_list ==
    /\ pc = "find_list"
    /\ LET profiles == get_document_profiles(filemap.targets, targets[i])
       IN  /\ j <= Len(profiles)
           /\ \E outcome \in Outcomes(FindListContents) :
                LET result == Request(outcome)
                IN  /\ effects' = Append(effects,
                            Effect("find_list", targets[i], <<profiles[j][1]>>,
                                   to_dict(key_query(profiles[j][2])), result))
                    /\ IF result.exception # ""
                       THEN /\ j' = j + 1
                            /\ UNCHANGED <<pc, raised, version_map>>
                       ELSE IF result.value.kind # "dict"
                       THEN /\ Crash("AttributeError", targets[i])
                            /\ UNCHANGED <<j, version_map>>
                       ELSE /\ version_map' =
                                 IF doc_ver_keys(result.value) # <<>>
                                 THEN Put(version_map, profiles[j][1],
                                          doc_ver_keys(result.value)[1])
                                 ELSE version_map
                            /\ j' = j + 1
                            /\ UNCHANGED <<pc, raised>>
    /\ UNCHANGED <<env, disk, filemap, templateAnswer, i, response, mapped_files,
                   target_responses, processed_responses>>

\* _get_current_versions: `if response:` for one target
show_record ==
    /\ pc = "find_list"
    /\ j > Len(get_document_profiles(filemap.targets, targets[i]))
    /\ target_responses' =
         IF version_map # <<>>
         THEN Put(target_responses, targets[i], DictValue(version_map))
         ELSE target_responses
    /\ i' = i + 1
    /\ pc' = "show"
    /\ UNCHANGED <<env, disk, filemap, raised, templateAnswer, response, mapped_files,
                   processed_responses, j, version_map, effects>>

\* ShowCommand.execute: the report is printed
show_print ==
    /\ pc = "show"
    /\ i > Len(targets)
    /\ pc' = "done"
    /\ UNCHANGED <<env, disk, filemap, raised, templateAnswer, locals, effects>>

Next ==
    \/ load_filemap
    \/ create_filemap
    \/ push_execute
    \/ send_prompt
    \/ post_files_read
    \/ post_files_submit
    \/ copy_files_remove
    \/ copy_files_copy
    \/ copy_files_marker
    \/ send_record
    \/ send_return
    \/ remap_target_responses
    \/ create_git_tags
    \/ show_execute
    \/ show_target
    \/ show_find_list
    \/ show_record
    \/ show_print

Spec == Init /\ [][Next]_vars

\* ------------------------------------------------- a changing working tree
\* The operator removes a file of the working tree after the map was loaded
\* and validated, before _post_files_to_target reads the files of a target.
file_removed ==
    /\ pc = "post"
    /\ \E filename \in treeFiles : treeFiles' = treeFiles \ {filename}
    /\ UNCHANGED <<pc, env, mapDoc, existingDirs, dirEntries, filemap, raised,
                   templateAnswer, locals, effects>>

NextUnlink ==
    \/ Next
    \/ file_removed

\* the files of a target are read within that target's turn of the loop:
\* runs over one requested target
InitUnlink ==
    /\ Init
    /\ Len(targets) = 1

SpecUnlink == InitUnlink /\ [][NextUnlink]_vars

\* ------------------------------------- a module directory in the working tree
\* Nothing keeps a map from naming, as the module directory of a target, the
\* directory under the working-tree root that is the source of the mirror:
\* _validate_map_files finds both paths on disk.  Runs over one requested
\* target whose map may do so.
LocalDirRecords ==
    [_document_profiles : ProfileChoices,
     _module_directory : {"", ModuleDirectoryOf("A"), LocalPath("modules")}]

InitLocalDir ==
    /\ pc = "main"
    /\ command \in {"push", "show"}
    /\ targets = <<"A">>
    /\ allow_uncommitted \in (IF command = "push" THEN BOOLEAN ELSE {FALSE})
    /\ uncommitted \in (IF command = "push" THEN BOOLEAN ELSE {FALSE})
    /\ mapDoc \in {AbsentDoc}
                  \cup {[present |-> TRUE, targets |-> << <<"A", r>> >>] : r \in LocalDirRecords}
    /\ treeFiles \in {Filenames \ gone : gone \in {g \in SUBSET Filenames : Cardinality(g) <= MaxMissing}}
    /\ existingDirs \in {DirPaths \ gone : gone \in {g \in SUBSET DirPaths : Cardinality(g) <= MaxMissing}}
    /\ dirEntries = [dir \in DirPaths |-> InitialEntries(dir)]
    /\ filemap = NotLoaded
    /\ raised = NoError
    /\ templateAnswer = "none"
    /\ i = 1
    /\ response = Unbound
    /\ mapped_files = <<>>
    /\ target_responses = <<>>
    /\ processed_responses = <<>>
    /\ j = 1
    /\ version_map = <<>>
    /\ effects = <<>>
    /\ call = NoCall
    /\ returned = NoCall

SpecLocalDir == InitLocalDir /\ [][Next]_vars

\* ====================================================== functions on their own
\* The functions of the module that take their inputs as arguments, called
\* outside a run of main(), one function in a behaviour: `call` holds the
\* function and its arguments, `returned` what it returned or raised.
run == <<pc, command, targets, allow_uncommitted, uncommitted, disk, filemap, raised,
         templateAnswer, locals, effects>>

InitCalls ==
    /\ pc = "call"
    /\ command = "none"
    /\ targets = <<>>
    /\ allow_uncommitted = FALSE
    /\ uncommitted = FALSE
    /\ mapDoc = AbsentDoc
    /\ treeFiles = Filenames
    /\ existingDirs = DirPaths
    /\ dirEntries = [dir \in DirPaths |-> InitialEntries(dir)]
    /\ filemap = NotLoaded
    /\ raised = NoError
    /\ templateAnswer = "none"
    /\ i = 1
    /\ response = Unbound
    /\ mapped_files = <<>>
    /\ target_responses = <<>>
    /\ processed_responses = <<>>
    /\ j = 1
    /\ version_map = <<>>
    /\ effects = <<>>
    /\ call = NoCall
    /\ returned = NoCall

\* ---------------------------------------------------- map_has_all_targets
\* map_has_all_targets with issuperset in the place of issubset
map_has_all_targets_superset(api_connections, map_targets) ==
    LET api_set == {api_connections[k] : k \in DOMAIN api_connections}
        map_set == Keys(map_targets)
    IN  IF ~(map_set \subseteq api_set)
        THEN [value |-> FALSE, logged |-> api_set \ map_set]
        ELSE [value |-> TRUE, logged |-> {}]

\* FileMap.map_has_all_targets: the value returned and the set the error
\* message names (nothing is logged when the value is True)
map_has_all_targets(api_connections, map_targets) ==
    LET api_set == {api_connections[k] : k \in DOMAIN api_connections}
        map_set == Keys(map_targets)
    IN  IF ~(api_set \subseteq map_set)
        THEN [value |-> FALSE, logged |-> api_set \ map_set]
        ELSE [value |-> TRUE, logged |-> {}]

\* the keys of api_connections: any requested targets, in any order
ConnectionChoices == DistinctSeqs(ConfigTargets, 0, Cardinality(ConfigTargets))

call_map_has_all_targets ==
    /\ pc = "call"
    /\ call = NoCall
    /\ \E api_connections \in ConnectionChoices, map_targets \in FileMaps :
         /\ call' = [fn |-> "map_has_all_targets", api_connections |-> api_connections,
                     map_targets |-> map_targets]
         /\ returned' = map_has_all_targets(api_connections, map_targets)
    /\ UNCHANGED run

\* -------------------------------------- _parse_contents, _response_hander
\* a text body, as _parse_contents returns it
Text(text) == [kind |-> "text", body |-> text]

\* Content-Type headers, as the parts the substring tests tell apart; <<>> is
\* a response without the header
ContentTypes ==
    {<<>>, <<"text/html">>, <<"text/html", "; charset=utf-8">>,
     <<"application/xhtml+xml">>, <<"application/json">>, <<"Application/JSON">>,
     <<"text/plain">>}

\* str.lower() on a part of the header
Lower(part) == IF part = "Application/JSON" THEN "application/json" ELSE part

\* `media_type in content_type`
InContentType(media_type, content_type) ==
    \E k \in DOMAIN content_type : content_type[k] = media_type

\* response.text
ResponseTexts ==
    {"", "{\"d1\": 1}", "{oops", "<body>Hi<br>there</body>", "<body></body>", "plain"}

NotJson == [kind |-> "JSONDecodeError", body |-> <<>>]

\* response.json(): the parsed body, or JSONDecodeError
Json(text) ==
    IF text = "{\"d1\": 1}" THEN DictValue(<< <<"d1", 1>> >>) ELSE NotJson

NoBody == [found |-> FALSE, text |-> ""]

\* BeautifulSoup(text, 'html.parser').find('body') and its
\* get_text(separator='\n', strip=True)
Body(text) ==
    IF text = "<body>Hi<br>there</body>" THEN [found |-> TRUE, text |-> "Hi\nthere"]
    ELSE IF text = "<body></body>" THEN [found |-> TRUE, text |-> ""]
    ELSE NoBody

\* APIAdaptor._parse_contents: the contents returned, and whether the JSON
\* error was logged
parse_contents(header, text) ==
    LET content_type == [k \in DOMAIN header |-> Lower(header[k])]
        contents == IF text # "" THEN Text(text) ELSE NoneValue
    IN  IF \/ InContentType("text/html", content_type)
           \/ InContentType("application/xhtml+xml", content_type)
        THEN [value |-> IF Body(text).found THEN Text(Body(text).text) ELSE contents,
              logged |-> FALSE]
        ELSE IF InContentType("application/json", content_type)
        THEN IF Json(text) # NotJson
             THEN [value |-> Json(text), logged |-> FALSE]
             ELSE [value |-> contents, logged |-> TRUE]
        ELSE [value |-> contents, logged |-> FALSE]

call_parse_contents ==
    /\ pc = "call"
    /\ call = NoCall
    /\ \E header \in ContentTypes, text \in ResponseTexts :
         /\ call' = [fn |-> "parse_contents", header |-> header, text |-> text]
         /\ returned' = parse_contents(header, text)
    /\ UNCHANGED run

\* response.status_code
StatusCodes == {199, 200, 204, 299, 300, 400, 401, 403, 404, 500}

call_response_hander ==
    /\ pc = "call"
    /\ call = NoCall
    /\ \E status_code \in StatusCodes, header \in ContentTypes, text \in ResponseTexts :
         /\ call' = [fn |-> "response_hander", status_code |-> status_code,
                     header |-> header, text |-> text]
         /\ returned' = response_hander(status_code, parse_contents(header, text).value)
    /\ UNCHANGED run

\* ------------------------------------------- FindListQueryBuilder, called
\* the arguments of the constructor: none, or start and batch_size
ConstructorArgs == {<<>>, <<0, 1>>, <<500, 500>>}

NewQuery(args) ==
    IF args = <<>> THEN FindListQueryBuilder(DefaultStart, DefaultBatchSize)
    ELSE FindListQueryBuilder(args[1], args[2])

QueryColumns ==
    {ColumnSpecification("A", "ASCENDING"), ColumnSpecification("B", "DESCENDING")}

QueryAttributes ==
    {AttributeEquals("X", "v1"), AttributeSQL("Y", <<"v2", "v3">>, "IN"),
     AttributeEquals("Y", "v1")}

call_query_new ==
    /\ pc = "call"
    /\ call = NoCall
    /\ \E args \in ConstructorArgs :
         /\ call' = [fn |-> "query", args |-> args, query |-> NewQuery(args),
                     added |-> <<>>]
         /\ returned' = to_dict(NewQuery(args))
    /\ UNCHANGED run

call_add_column_spec ==
    /\ pc = "call"
    /\ call.fn = "query"
    /\ Len(call.added) < MaxAdds
    /\ \E col \in QueryColumns :
         /\ call' = [call EXCEPT !.query = add_column_spec(@, col),
                                 !.added = Append(@, [kind |-> "column", arg |-> col])]
         /\ returned' = to_dict(add_column_spec(call.query, col))
    /\ UNCHANGED run

call_add_attribute ==
    /\ pc = "call"
    /\ call.fn = "query"
    /\ Len(call.added) < MaxAdds
    /\ \E attr \in QueryAttributes :
         /\ call' = [call EXCEPT !.query = add_attribute(@, attr),
                                 !.added = Append(@, [kind |-> "attribute", arg |-> attr])]
         /\ returned' = to_dict(add_attribute(call.query, attr))
    /\ UNCHANGED run

\* ------------------------------------------------ APIAdaptor._validate_url
\* A URL is the sequence of its parts: the scheme, "://", the host (one part,
\* or none) and the path, a sequence of "/" and pieces of segment text.  A
\* segment is a run of pieces between two "/": <<"x", "fmax">> is the
\* segment xfmax.
PathPieces == {"/", "fmax", "x"}

RECURSIVE PiecesUpTo(_)
PiecesUpTo(n) ==
    IF n = 0 THEN {<<>>}
    ELSE PiecesUpTo(n - 1) \cup
         {Append(p, piece) : p \in {q \in PiecesUpTo(n - 1) : Len(q) = n - 1},
                             piece \in PathPieces}

\* the paths: empty, or beginning with "/"
UrlPaths == {p \in PiecesUpTo(MaxPath) : p = <<>> \/ p[1] = "/"}

Urls ==
    {<<scheme, "://">> \o netloc \o path :
        scheme \in {"https", "http"}, netloc \in {<<>>, <<"example.com">>},
        path \in UrlPaths}

\* urllib.parse.urlparse: scheme, netloc (up to the first "/"), path
urlparse(url) ==
    LET rest == SubSeq(url, 3, Len(url))
        slashes == {k \in DOMAIN rest : rest[k] = "/"}
        cut == IF slashes = {} THEN Len(rest) + 1 ELSE Min(slashes)
    IN  [scheme |-> url[1], netloc |-> SubSeq(rest, 1, cut - 1),
         path |-> SubSeq(rest, cut, Len(rest))]

\* str.rstrip('/')
RECURSIVE rstrip(_)
rstrip(s) ==
    IF s # <<>> /\ s[Len(s)] = "/" THEN rstrip(SubSeq(s, 1, Len(s) - 1)) ELSE s

\* str.lstrip('/')
RECURSIVE lstrip(_)
lstrip(s) == IF s # <<>> /\ Head(s) = "/" THEN lstrip(Tail(s)) ELSE s

\* path.strip('/').split('/')[0]
first_path_part(path) ==
    LET stripped == lstrip(rstrip(path))
        slashes == {k \in DOMAIN stripped : stripped[k] = "/"}
    IN  IF slashes = {} THEN stripped ELSE SubSeq(stripped, 1, Min(slashes) - 1)

\* `'fmax' in part`
ContainsFmax(part) == \E k \in DOMAIN part : part[k] = "fmax"

NoUrl == <<>>

\* _validate_url without the check of the scheme
validate_url_any_scheme(url) ==
    LET parsed_url == urlparse(url)
    IN  IF parsed_url.netloc = <<>>
        THEN [error |-> "ValueError", message |-> "URL domain is invalid", url |-> NoUrl]
        ELSE IF ~ContainsFmax(first_path_part(parsed_url.path))
        THEN [error |-> "ValueError",
              message |-> "URL path is empty or does not contain fmax", url |-> NoUrl]
        ELSE [error |-> "", message |-> "", url |-> Append(rstrip(url), "/")]

\* APIAdaptor._validate_url: the ValueError raised, or the URL returned,
\* which __init__ stores as self.url
validate_url(url) ==
    LET parsed_url == urlparse(url)
    IN  IF parsed_url.netloc = <<>>
        THEN [error |-> "ValueError", message |-> "URL domain is invalid", url |-> NoUrl]
        ELSE IF parsed_url.scheme # "https"
        THEN [error |-> "ValueError", message |-> "URL scheme is not https",
              url |-> NoUrl]
        ELSE IF ~ContainsFmax(first_path_part(parsed_url.path))
        THEN [error |-> "ValueError",
              message |-> "URL path is empty or does not contain fmax", url |-> NoUrl]
        ELSE [error |-> "", message |-> "", url |-> Append(rstrip(url), "/")]

call_validate_url ==
    /\ pc = "call"
    /\ call = NoCall
    /\ \E url \in Urls :
         /\ call' = [fn |-> "validate_url", url |-> url]
         /\ returned' = validate_url(url)
    /\ UNCHANGED run

NextCalls ==
    \/ call_map_has_all_targets
    \/ call_parse_contents
    \/ call_response_hander
    \/ call_query_new
    \/ call_add_column_spec
    \/ call_add_attribute
    \/ call_validate_url

SpecCalls == InitCalls /\ [][NextCalls]_vars

\* ================================================================== claims
\* positions in `effects` of the effects of one kind
Ops(op) == {k \in DOMAIN effects : effects[k].op = op}

\* the submit to `target` returned a body that is not empty
Responded(target) ==
    \E k \in Ops("submit") :
        /\ effects[k].target = target
        /\ effects[k].result.exception = ""
        /\ Truthy(effects[k].result.value)

\* the requested targets that responded, in the order of the request
Responders == SelectSeq(targets, LAMBDA t : Responded(t))

\* the send step of `target` ended in the handler of filesystem errors
SendFailed(target) == \E k \in Ops("error") : effects[k].target = target

\* every file and directory the map names is on disk
OnDisk(map_targets) ==
    \A k \in DOMAIN map_targets :
        LET map == map_targets[k][2]
        IN  /\ \A n \in DOMAIN map._document_profiles :
                  map._document_profiles[n][1] \in treeFiles
            /\ map._module_directory # "" =>
                  /\ map._module_directory \in existingDirs
                  /\ LocalPath(PathName(map._module_directory)) \in existingDirs

\* C1: a push ends with exactly one tag if the submit to at least one target
\* returned a response, and with no tag otherwise.  The premise is read in the
\* way most favourable to the code: an empty body does not count as a response.
C1_TagIffResponse ==
    (command = "push" /\ pc \in {"done", "crashed"}) =>
        Cardinality(Ops("tag")) = (IF Responders # <<>> THEN 1 ELSE 0)

\* C2: git tag is invoked at most once in a run, only after every requested
\* target has been attempted or skipped, and no submit, no file operation and
\* no other effect follows it.
C2_TagOnceAfterAllTargets ==
    /\ Cardinality(Ops("tag")) <= 1
    /\ \A k \in Ops("tag") :
          /\ k = Len(effects)
          /\ i > Len(targets)
          /\ pc = "done"

C2_Witness ==
    /\ pc = "done"
    /\ Ops("tag") # {}
    /\ Len(targets) = 2
    /\ Cardinality(Ops("submit")) = 2
    /\ Ops("marker") # {}

\* C3: the name of the tag lists exactly the targets that produced a response,
\* in the order of the request, and the body of the tag has one entry for each
\* of exactly those targets.
C3_TagCoversResponders ==
    \A k \in Ops("tag") :
        /\ effects[k].names = Responders
        /\ KeyList(effects[k].body) = Responders

\* C4: however the send step of a target ended (a failure at any of its points,
\* or none), nothing is raised out of push and the loop goes on with the next
\* target.
C4_SendFailureNeverRaised ==
    [][pc = "record" => (pc' = "send" /\ i' = i + 1)]_vars

\* C5: with uncommitted changes and no override, push sends nothing, changes no
\* module directory, writes no marker and creates no tag; with a clean tree or
\* the override, push goes through the send loop before it ends.
C5_CommitGate ==
    (command = "push" /\ filemap.loaded) =>
        IF uncommitted /\ ~allow_uncommitted
        THEN /\ effects = <<>>
             /\ dirEntries = [dir \in DirPaths |-> InitialEntries(dir)]
             /\ target_responses = <<>>
             /\ pc \in {"execute", "done"}
        ELSE /\ pc \in {"execute", "done", "crashed", "send", "post", "submit", "remove",
                        "copy", "marker", "record", "remap", "tag"}
             /\ pc = "done" => i > Len(targets)

C5_Witness ==
    /\ command = "push"
    /\ uncommitted
    /\ ~allow_uncommitted
    /\ pc = "done"

\* C6: when a requested target is not in the file map, no submit and no list
\* query is sent to any target.
C6_NoRequestWhenTargetMissing ==
    (filemap.loaded /\ \E k \in DOMAIN targets : ~HasKey(filemap.targets, targets[k])) =>
        Ops("submit") \cup Ops("find_list") = {}

\* the key under which remap files response entry n of doc_map: the filename of
\* the last profile entry with that identifier, or the identifier itself
RemapKey(doc_map, profiles, n) ==
    LET known == {m \in DOMAIN profiles : profiles[m][2] = doc_map[n][1]}
    IN  IF known # {} THEN profiles[CHOOSE m \in known : \A o \in known : o <= m][1]
        ELSE doc_map[n][1]

\* C7 as stated: after remap, every target keeps its place, every identifier of
\* the profile is replaced by a filename mapped to it with its descriptor
\* unchanged, every other identifier keeps its key and descriptor, and each
\* target has as many entries as before.
C7_RemapKeepsEveryEntry ==
    pc = "tag" =>
        \A k \in DOMAIN target_responses :
            LET doc_map == target_responses[k][2].body
                out == processed_responses[k][2].body
                profiles == get_document_profiles(filemap.targets, target_responses[k][1])
            IN  /\ processed_responses[k][1] = target_responses[k][1]
                /\ Len(out) = Len(doc_map)
                /\ \A n \in DOMAIN doc_map :
                      /\ HasKey(out, RemapKey(doc_map, profiles, n))
                      /\ Get(out, RemapKey(doc_map, profiles, n)) = doc_map[n][2]

\* C7 as amended: after remap, every target keeps its place; the keys of a
\* target's entries are the filenames the reversed profile gives for the known
\* identifiers and the unknown identifiers themselves; each key carries the
\* descriptor of the last response entry filed under it; so a target has at
\* most as many entries as before, and as many when no two entries are filed
\* under one key.
C7_Remap ==
    pc = "tag" =>
        /\ Len(processed_responses) = Len(target_responses)
        /\ \A k \in DOMAIN target_responses :
            LET doc_map == target_responses[k][2].body
                out == processed_responses[k][2].body
                profiles == get_document_profiles(filemap.targets, target_responses[k][1])
                key(n) == RemapKey(doc_map, profiles, n)
                last(n) == \A m \in DOMAIN doc_map : key(m) = key(n) => m <= n
            IN  /\ processed_responses[k][1] = target_responses[k][1]
                /\ Keys(out) = {key(n) : n \in DOMAIN doc_map}
                /\ Len(out) = Cardinality(Keys(out))
                /\ \A n \in DOMAIN doc_map : last(n) => Get(out, key(n)) = doc_map[n][2]
                /\ Len(out) <= Len(doc_map)
                /\ (\A m, n \in DOMAIN doc_map : key(m) = key(n) => m = n) =>
                      Len(out) = Len(doc_map)

C7_Witness ==
    /\ pc = "tag"
    /\ \E k \in DOMAIN target_responses :
          /\ KeyList(target_responses[k][2].body) = <<"d1", "d2">>
          /\ KeyList(processed_responses[k][2].body) = <<"f1", "d2">>

\* C8: a target whose send step ended in a filesystem error has no entry in the
\* response map and is not named in the tag.
C8_FailedSendGivesNoEntry ==
    \A k \in DOMAIN targets :
        (SendFailed(targets[k]) /\ (pc = "record" => i # k)) =>
            /\ ~HasKey(target_responses, targets[k])
            /\ \A n \in Ops("tag") : \A m \in DOMAIN effects[n].names :
                  effects[n].names[m] # targets[k]

\* C9: the map is in memory only if every file of every document profile and
\* every configured module directory, at its place and under the working-tree
\* root, is on disk, and then it is the whole map document; otherwise load
\* ends in a FileNotFoundError that names a missing file and its target, or a
\* missing directory, and the process exits before any command runs.
C9_LoadValidates ==
    /\ filemap.loaded => (OnDisk(filemap.targets) /\ filemap.targets = mapDoc.targets)
    /\ (pc # "main" /\ templateAnswer = "none" /\ ~OnDisk(mapDoc.targets)) =>
          /\ pc = "exit1"
          /\ ~filemap.loaded
          /\ effects = <<>>
          /\ raised.kind = "FileNotFoundError"
          /\ \/ /\ raised.what = "file"
                /\ raised.name \notin treeFiles
                /\ HasKey(mapDoc.targets, raised.target)
                /\ \E n \in DOMAIN Get(mapDoc.targets, raised.target)._document_profiles :
                      Get(mapDoc.targets, raised.target)._document_profiles[n][1] = raised.name
             \/ /\ raised.what = "module_directory"
                /\ raised.name \notin existingDirs
                /\ HasKey(mapDoc.targets, raised.target)
                /\ Get(mapDoc.targets, raised.target)._module_directory = raised.name
             \/ /\ raised.what = "local_directory"
                /\ raised.name \notin existingDirs
                /\ \E k \in DOMAIN mapDoc.targets :
                      /\ mapDoc.targets[k][2]._module_directory # ""
                      /\ LocalPath(PathName(mapDoc.targets[k][2]._module_directory)) = raised.name

C9_Witness ==
    /\ pc = "exit1"
    /\ raised.what = "file"
    /\ raised.name = "f2"
    /\ raised.target = "B"

\* C10: when the map document is absent, load fails whatever the operator
\* answers: a template is written exactly when the operator accepts, no map is
\* in memory, and no command and no remote request follows.
C10_AbsentMapAlwaysFails ==
    /\ (~mapDoc.present \/ templateAnswer # "none") =>
          /\ pc \in {"main", "exit1"}
          /\ ~filemap.loaded
          /\ effects = <<>>
    /\ templateAnswer # "none" =>
          /\ pc = "exit1"
          /\ raised.kind = (IF continue_yN(templateAnswer) THEN "ValueError"
                            ELSE "FileNotFoundError")
          /\ mapDoc = (IF continue_yN(templateAnswer)
                       THEN [present |-> TRUE, targets |-> filemap_template]
                       ELSE AbsentDoc)

C10_Witness ==
    /\ templateAnswer = "Y"
    /\ pc = "exit1"
    /\ mapDoc.present

\* C11: has_all_targets returns true if and only if every requested target
\* name is a target of the map, and when it returns false the missing set it
\* reports is exactly the requested names that are not in the map.
C11_HasAllTargets ==
    call.fn = "map_has_all_targets" =>
        LET requested == {call.api_connections[k] : k \in DOMAIN call.api_connections}
        IN  /\ returned.value <=> \A t \in requested : HasKey(call.map_targets, t)
            /\ ~returned.value =>
                  returned.logged = {t \in requested : ~HasKey(call.map_targets, t)}

\* requested {A, B} against a map of {A}: false, and B missing
C11_Witness ==
    /\ call.fn = "map_has_all_targets"
    /\ call.api_connections = <<"A", "B">>
    /\ KeyList(call.map_targets) = <<"A">>
    /\ returned = [value |-> FALSE, logged |-> {"B"}]

\* the document identifiers of a profile mapping are unique within the target
\* (the data model of the file map)
DistinctIds(profiles) ==
    \A m, n \in DOMAIN profiles : m # n => profiles[m][2] # profiles[n][2]

ErrorClass(status_code) ==
    IF status_code = 400 THEN "client"
    ELSE IF status_code = 401 THEN "authentication"
    ELSE "generic"

\* what tells one raised exception from another: its type and its message
Raised(status_code) ==
    LET error == response_hander(status_code, NoneValue)
    IN  <<error.exception, error.message>>

\* C13: for every status code, 200..299 returns the normalized body and any
\* other status raises and returns nothing; 400 raises the bad-request error,
\* 401 the invalid-auth error, every other status the generic response error,
\* each carrying the normalized body; statuses of different classes raise
\* exceptions that differ in type or message.
C13_ClassifiesByStatus ==
    /\ call.fn = "response_hander" =>
          LET contents == parse_contents(call.header, call.text).value
              ok == call.status_code >= 200 /\ call.status_code <= 299
          IN  /\ returned.value.kind = contents.kind
              /\ returned.value.body = contents.body
              /\ ok <=> returned.exception = ""
              /\ call.status_code = 400 =>
                    /\ returned.exception = "HTTPError"
                    /\ returned.message = "Bad request: HTTP Error 400"
              /\ call.status_code = 401 =>
                    /\ returned.exception = "HTTPError"
                    /\ returned.message = "Invalid auth: HTTP Error 401"
              /\ (~ok /\ call.status_code \notin {400, 401}) =>
                    /\ returned.exception = "RequestException"
                    /\ returned.message = "Response error: Status code"
    /\ \A s1, s2 \in StatusCodes :
          (s1 < 200 \/ s1 > 299) /\ (s2 < 200 \/ s2 > 299) /\ ErrorClass(s1) # ErrorClass(s2)
              => Raised(s1) # Raised(s2)

\* a 401 whose JSON body was parsed: the invalid-auth error carries it
C13_Witness ==
    /\ call.fn = "response_hander"
    /\ call.status_code = 401
    /\ returned.exception = "HTTPError"
    /\ returned.message = "Invalid auth: HTTP Error 401"
    /\ returned.value.kind = "dict"

\* C14: a response of Content-Type application/json whose body cannot be
\* parsed normalizes to an error log entry and an absent value, never to the
\* raw text of the body.
C14_UnparsableJsonIsAbsent ==
    (/\ call.fn = "parse_contents"
     /\ InContentType("application/json", [k \in DOMAIN call.header |-> Lower(call.header[k])])
     /\ Json(call.text) = NotJson)
        => /\ returned.logged
           /\ returned.value.kind = "None"

\* the arguments of the add calls of one kind, in the order of the calls
AddedArgs(kind) ==
    LET adds == SelectSeq(call.added, LAMBDA e : e.kind = kind)
    IN  [k \in DOMAIN adds |-> adds[k].arg]

\* the query that a sequence of add calls builds
RECURSIVE Replay(_, _)
Replay(query, adds) ==
    IF adds = <<>> THEN query
    ELSE Replay(IF Head(adds).kind = "column"
                THEN add_column_spec(query, Head(adds).arg)
                ELSE add_attribute(query, Head(adds).arg),
                Tail(adds))

\* the positions of the attribute adds
AttributeAdds == {k \in DOMAIN call.added : call.added[k].kind = "attribute"}

\* two filters were added, on fields that do not overlap
TwoFilters ==
    /\ call.fn = "query"
    /\ Cardinality(AttributeAdds) = 2
    /\ \A p, q \in AttributeAdds :
          p # q => call.added[p].arg.colName # call.added[q].arg.colName

\* the add calls with the two filters added the other way round
Swapped ==
    LET p == Min(AttributeAdds)
        q == CHOOSE k \in AttributeAdds : k # p
    IN  [k \in DOMAIN call.added |->
            IF k = p THEN call.added[q] ELSE IF k = q THEN call.added[p] ELSE call.added[k]]

\* the serialization lists every added column once, in insertion order, and
\* has the pagination window given at construction
ListsColumnsAndWindow ==
    call.fn = "query" =>
        /\ returned.columnSpecifications =
              [k \in DOMAIN AddedArgs("column") |->
                  [property |-> AddedArgs("column")[k].property,
                   direction |-> AddedArgs("column")[k].direction]]
        /\ returned.start = (IF call.args = <<>> THEN 0 ELSE call.args[1])
        /\ returned.batchSize = (IF call.args = <<>> THEN 500 ELSE call.args[2])
        /\ Len(returned.query.attributes) = Len(AddedArgs("attribute"))

\* the entries of the serialized filters, as a set
FilterEntries(serialized) ==
    {serialized.query.attributes[k] : k \in DOMAIN serialized.query.attributes}

\* C18 as stated: every added column is listed once in insertion order, every
\* added filter once, with the window given at construction, and the
\* serialized result does not depend on the order in which two filters on
\* non-overlapping fields were added.
C18_FilterOrderIndependent ==
    /\ ListsColumnsAndWindow
    /\ TwoFilters => to_dict(Replay(NewQuery(call.args), Swapped)) = returned

\* C18, amended: every added column is listed once in insertion order and
\* every added filter once in insertion order, with the window given at
\* construction; adding two filters on non-overlapping fields the other way
\* round gives the same set of filter entries, listed the other way round.
C18_FiltersInInsertionOrder ==
    /\ ListsColumnsAndWindow
    /\ call.fn = "query" =>
          \A k \in DOMAIN AddedArgs("attribute") :
              LET attr == AddedArgs("attribute")[k]
                  entry == returned.query.attributes[k]
              IN  /\ entry.key = attr.colName
                  /\ IF attr.class = "AttributeEquals"
                     THEN entry.form = "value" /\ entry.value = attr.values[1]
                     ELSE /\ entry.form = "values, sqlOperator"
                          /\ entry.values = attr.values
                          /\ entry.sqlOperator = attr.sql_operator
    /\ TwoFilters =>
          LET other == to_dict(Replay(NewQuery(call.args), Swapped))
          IN  /\ FilterEntries(other) = FilterEntries(returned)
              /\ other.query.attributes[1] = returned.query.attributes[2]
              /\ other.query.attributes[2] = returned.query.attributes[1]
              /\ other.columnSpecifications = returned.columnSpecifications

\* columns [A asc, B desc] and filters [X = v1, Y in {v2, v3}], default window
C18_Witness ==
    /\ call.fn = "query"
    /\ call.args = <<>>
    /\ call.added = <<[kind |-> "column", arg |-> ColumnSpecification("A", "ASCENDING")],
                      [kind |-> "column", arg |-> ColumnSpecification("B", "DESCENDING")],
                      [kind |-> "attribute", arg |-> AttributeEquals("X", "v1")],
                      [kind |-> "attribute", arg |-> AttributeSQL("Y", <<"v2", "v3">>, "IN")]>>
    /\ returned.start = 0
    /\ returned.batchSize = 500
    /\ Len(returned.columnSpecifications) = 2
    /\ returned.columnSpecifications[1].property = "A"
    /\ returned.columnSpecifications[2].direction = "DESCENDING"
    /\ returned.query.attributes[1].key = "X"
    /\ returned.query.attributes[2].values = <<"v2", "v3">>

\* the remote request of effect k raised (no connection, or a status outside
\* 200..299)
RequestFailed(k) == effects[k].result.exception # ""

\* no target is sent two submits and no file of a target two list queries; a
\* target whose submit raised has no entry in the response map, a file whose
\* list query raised none in the version map of its target
OneRequestEach ==
    /\ \A k1, k2 \in Ops("submit") :
          effects[k1].target = effects[k2].target => k1 = k2
    /\ \A k1, k2 \in Ops("find_list") :
          (effects[k1].target = effects[k2].target /\ effects[k1].names = effects[k2].names)
              => k1 = k2
    /\ \A k \in Ops("submit") :
          RequestFailed(k) => ~HasKey(target_responses, effects[k].target)
    /\ \A k \in Ops("find_list") :
          RequestFailed(k) =>
              /\ (pc = "find_list" /\ targets[i] = effects[k].target) =>
                    ~HasKey(version_map, effects[k].names[1])
              /\ HasKey(target_responses, effects[k].target) =>
                    ~HasKey(Get(target_responses, effects[k].target).body,
                            effects[k].names[1])

\* a request that raises does not end the run: push goes on to the mirror
\* and then to the next target, show to the next file
RequestErrorGoesOn ==
    /\ (pc = "submit" /\ effects'[Len(effects')].result.exception # "") =>
          (pc' = "remove" /\ response' = NoneValue /\ i' = i)
    /\ (pc = "record" /\ response = NoneValue) =>
          (pc' = "send" /\ i' = i + 1 /\ target_responses' = target_responses)
    /\ (pc = "find_list" /\ Len(effects') > Len(effects)
           /\ effects'[Len(effects')].result.exception # "") =>
          (pc' = "find_list" /\ j' = j + 1 /\ i' = i /\ version_map' = version_map)

\* C15: remote request errors are never retried and never abort siblings: a
\* push sends each target at most one submit, a show each (target, file) at
\* most one list query; a request error leaves its target or file without a
\* result, and the remaining targets and files are still processed.
C15_NoRetryNoAbort == []OneRequestEach /\ [][RequestErrorGoesOn]_vars

\* the submit to the first target raised, the second target was sent its
\* submit and answered, and the push ended with a tag
C15_Witness ==
    /\ pc = "done"
    /\ Len(targets) = 2
    /\ \E k1, k2 \in Ops("submit") :
          /\ k1 < k2
          /\ RequestFailed(k1)
          /\ effects[k1].target = targets[1]
          /\ effects[k2].target = targets[2]
          /\ ~RequestFailed(k2)
    /\ KeyList(target_responses) = <<targets[2]>>
    /\ Ops("tag") # {}

\* a list query answered without a result: an absent body, or no row
NoRows(value) ==
    \/ value.kind = "None"
    \/ value.kind = "dict" /\ doc_ver_keys(value) = <<>>

\* C16: in show, a file whose list query returned at least one row is entered
\* in the version map with the first row; a file whose list query returned no
\* result (an empty results sequence or an absent body) is left out and show
\* goes on with the remaining files and targets without failing.
C16_NoResultIsSkipped ==
    \A k \in Ops("find_list") :
        LET value == effects[k].result.value
            current == /\ k = Len(effects)
                       /\ i \in DOMAIN targets
                       /\ effects[k].target = targets[i]
        IN  effects[k].result.exception = "" =>
              /\ (value.kind = "dict" /\ doc_ver_keys(value) # <<>> /\ current
                    /\ pc = "find_list") =>
                    /\ HasKey(version_map, effects[k].names[1])
                    /\ Get(version_map, effects[k].names[1]) = doc_ver_keys(value)[1]
              /\ (NoRows(value) /\ current) =>
                    /\ pc = "find_list"
                    /\ ~HasKey(version_map, effects[k].names[1])

\* the segments of a path: the runs of pieces between its "/"
RECURSIVE Segments(_)
Segments(path) ==
    LET slashes == {k \in DOMAIN path : path[k] = "/"}
    IN  IF slashes = {} THEN {path}
        ELSE {SubSeq(path, 1, Min(slashes) - 1)}
             \cup Segments(SubSeq(path, Min(slashes) + 1, Len(path)))

\* the URL ends in exactly one "/"
EndsInOneSlash(url) ==
    /\ Len(url) >= 2
    /\ url[Len(url)] = "/"
    /\ url[Len(url) - 1] # "/"

\* the construction succeeded: stored is the input with its trailing "/"
\* replaced by one, and validating the stored URL again gives it unchanged
Normalized ==
    (call.fn = "validate_url" /\ returned.error = "") =>
        /\ EndsInOneSlash(returned.url)
        /\ rstrip(returned.url) = rstrip(call.url)
        /\ validate_url(returned.url).error = ""
        /\ validate_url(returned.url).url = returned.url

\* C17 as stated: construction succeeds only for scheme https, a host and a
\* path segment fmax, and then stores the input normalized to end in exactly
\* one "/", a fixed point of the normalization.
C17_RequiresFmaxSegment ==
    /\ (call.fn = "validate_url" /\ returned.error = "") =>
          /\ call.url[1] = "https"
          /\ urlparse(call.url).netloc # <<>>
          /\ <<"fmax">> \in Segments(urlparse(call.url).path)
    /\ Normalized

\* C17, amended: construction succeeds only for scheme https, a host and a
\* first path segment that contains fmax (and fails with ValueError
\* otherwise), and then stores the input normalized to end in exactly one
\* "/", a fixed point of the normalization.
C17_RequiresFmaxInFirstSegment ==
    /\ call.fn = "validate_url" =>
          /\ returned.error = "" <=>
                /\ call.url[1] = "https"
                /\ urlparse(call.url).netloc # <<>>
                /\ ContainsFmax(first_path_part(urlparse(call.url).path))
          /\ returned.error # "" => returned.error = "ValueError"
    /\ Normalized

\* https://example.com/fmax becomes https://example.com/fmax/
C17_Witness ==
    /\ call.fn = "validate_url"
    /\ call.url = <<"https", "://", "example.com", "/", "fmax">>
    /\ returned.error = ""
    /\ returned.url = <<"https", "://", "example.com", "/", "fmax", "/">>

\* C19: the file map is read-only at runtime: once it is loaded, no step of
\* push or show changes the targets, a document-profile mapping or a module
\* directory held in memory, and none writes the map document on disk; what
\* is in memory is what the document holds.
C19_FileMapReadOnly ==
    /\ [](filemap.loaded => (mapDoc.present /\ filemap.targets = mapDoc.targets))
    /\ [][filemap.loaded => (filemap' = filemap /\ mapDoc' = mapDoc)]_vars

\* a push that materialized, submitted, mirrored, remapped and tagged
C19_Witness ==
    /\ pc = "done"
    /\ filemap.loaded
    /\ Ops("submit") # {}
    /\ Ops("marker") # {}
    /\ processed_responses # <<>>
    /\ Ops("tag") # {}

\* the send steps of a target, in the order of the effect log
SendSteps(target) ==
    LET steps == SelectSeq(effects,
                           LAMBDA e : /\ e.target = target
                                      /\ e.op \in {"submit", "remove", "copy", "marker"})
    IN  [k \in DOMAIN steps |-> steps[k].op]

\* the place of a target in the request
Place(target) == CHOOSE k \in DOMAIN targets : targets[k] = target

\* C20: the send steps of a target happen in the order submit, removal of
\* the module directory's contents, copy of the local subtree, marker file;
\* the marker is written only after a removal and a copy that ended without
\* error, onto a complete copy; and no step of a later target precedes a step
\* of an earlier one.
C20_SendStepsInOrder ==
    /\ \A k \in DOMAIN targets :
          LET steps == SendSteps(targets[k])
          IN  steps = SubSeq(<<"submit", "remove", "copy", "marker">>, 1, Len(steps))
    /\ \A k \in Ops("marker") :
          /\ \A e \in 1..k : ~(effects[e].op = "error" /\ effects[e].target = effects[k].target)
          /\ k = Len(effects) =>
                LET target_dir == get_module_directory(filemap.targets, effects[k].target)
                IN  dirEntries[target_dir] =
                        dirEntries[LocalPath(PathName(target_dir))]
                            \cup {current_sha \o ".commit"}
    /\ \A k \in 1..(Len(effects) - 1) :
          effects[k + 1].op # "tag"
              => Place(effects[k].target) <= Place(effects[k + 1].target)

\* two targets, each submitted to, emptied, copied to and marked, one after
\* the other
C20_Witness ==
    /\ Len(targets) = 2
    /\ [k \in DOMAIN effects |-> effects[k].op] =
          <<"submit", "remove", "copy", "marker", "submit", "remove", "copy", "marker">>
    /\ effects[4].target = targets[1]
    /\ effects[5].target = targets[2]

\* the marker file of the current push
Marker == current_sha \o ".commit"

\* C21: after a mirror that completed without error (its marker was
\* written), the module directory of the target holds exactly the entries of
\* the corresponding local subtree and the marker of the current commit;
\* nothing that was in the directory before the push is left, unless the
\* local subtree has an entry of that name.
C21_MirrorIsExact ==
    \A k \in Ops("marker") :
        LET target_dir == get_module_directory(filemap.targets, effects[k].target)
            source_dir == LocalPath(PathName(target_dir))
        IN  /\ dirEntries[target_dir] = dirEntries[source_dir] \cup {Marker}
            /\ \A entry \in InitialEntries(target_dir) :
                  entry \in dirEntries[target_dir] => entry \in dirEntries[source_dir]
            /\ "sha0.commit" \notin dirEntries[target_dir]

\* the mirror of /mnt/A/modules, which held the marker of an earlier push
C21_Witness ==
    /\ pc = "done"
    /\ Ops("marker") # {}
    /\ get_module_directory(filemap.targets, "A") = "/mnt/A/modules"
    /\ "sha0.commit" \in InitialEntries("/mnt/A/modules")
    /\ dirEntries["/mnt/A/modules"] = {"mod.js", "sha1.commit"}

\* C25: for a file map that passed load validation, the mirror deletes
\* entries only in the configured module directory of the target and leaves
\* everything under the working-tree root as it was: the local subtree that
\* is the source of the mirror is the same before and after the push.
C25_LocalSubtreeUntouched ==
    filemap.loaded =>
        /\ dirEntries[LocalPath("modules")] = InitialEntries(LocalPath("modules"))
        /\ \A dir \in DirPaths :
              dirEntries[dir] # InitialEntries(dir) =>
                  \E k \in Ops("remove") :
                      get_module_directory(filemap.targets, effects[k].target) = dir

\* the send loop of push went past the k-th requested target without any
\* step for it: the operator declined it at the prompt
Declined(k) ==
    /\ command = "push"
    /\ k \in DOMAIN targets
    /\ k < i
    /\ \A n \in DOMAIN effects : effects[n].target # targets[k]

\* the prompt of the send loop is answered N
DeclineStep == pc = "send" /\ i <= Len(targets) /\ pc' # "post"

\* C22: a target declined at the prompt is skipped completely. The declining
\* step sends nothing, changes no directory and no response map and moves the
\* loop on to the next requested target; a declined target has no submit, no
\* marker, an unchanged module directory, and no entry in the response map
\* or in the tag.
C22_DeclinedIsSkipped ==
    /\ [][DeclineStep =>
            /\ pc' = "send"
            /\ i' = i + 1
            /\ effects' = effects
            /\ dirEntries' = dirEntries
            /\ target_responses' = target_responses]_vars
    /\ [](\A k \in DOMAIN targets :
            Declined(k) =>
                /\ ~HasKey(target_responses, targets[k])
                /\ ~HasKey(processed_responses, targets[k])
                /\ \A n \in Ops("tag") :
                      \A m \in DOMAIN effects[n].names :
                          effects[n].names[m] # targets[k]
                /\ HasKey(filemap.targets, targets[k]) =>
                      LET dir == get_module_directory(filemap.targets, targets[k])
                      IN  dir # "" => dirEntries[dir] = InitialEntries(dir))

\* A was declined; B, prompted after it, was submitted, mirrored and tagged
\* alone
C22_Witness ==
    /\ pc = "done"
    /\ targets = <<"A", "B">>
    /\ Declined(1)
    /\ HasKey(filemap.targets, "A")
    /\ get_module_directory(filemap.targets, "A") = "/mnt/A/modules"
    /\ \E k \in Ops("marker") : effects[k].target = "B"
    /\ \E n \in Ops("tag") : effects[n].names = <<"B">>

\* C23: whatever the response map of push holds for a target is the value
\* the submit to that target returned; no value is recorded for a target
\* whose send step made no submit, or whose submit returned something else.
C23_RecordedIsOwnResponse ==
    command = "push" =>
        \A n \in DOMAIN target_responses :
            \E k \in Ops("submit") :
                /\ effects[k].target = target_responses[n][1]
                /\ effects[k].result.exception = ""
                /\ effects[k].result.value.kind = target_responses[n][2].kind
                /\ effects[k].result.value = target_responses[n][2]

\* the send step of `target` is over and it had a module directory to mirror
Mirrored(target) ==
    /\ Place(target) < i
    /\ get_module_directory(filemap.targets, target) # ""

\* C24: the mirror of a target does not depend on its submit. A submit that
\* raised a request error yields None and is followed by the removal step of
\* the same target; once the send step of such a target is over, its module
\* directory has been emptied, and, unless the mirror itself raised a
\* filesystem error, the local subtree and the marker of the current commit
\* are in it; the target has no entry in the response map, the remapped
\* responses or the tag.
C24_MirrorDespiteFailedSubmit ==
    /\ [][pc = "submit" /\ effects'[Len(effects')].result.exception # "" =>
            /\ pc' = "remove"
            /\ response' = NoneValue
            /\ dirEntries' = dirEntries]_vars
    /\ [](command = "push" =>
            \A k \in Ops("submit") :
                RequestFailed(k) =>
                    LET target == effects[k].target
                        target_dir == get_module_directory(filemap.targets, target)
                    IN  /\ ~HasKey(target_responses, target)
                        /\ ~HasKey(processed_responses, target)
                        /\ \A n \in Ops("tag") :
                              \A m \in DOMAIN effects[n].names :
                                  effects[n].names[m] # target
                        /\ Mirrored(target) =>
                              /\ \E n \in Ops("remove") :
                                    n > k /\ effects[n].target = target
                              /\ ~SendFailed(target) =>
                                    /\ \E n \in Ops("marker") :
                                          n > k /\ effects[n].target = target
                                    /\ Marker \in dirEntries[target_dir]
                                    /\ "mod.js" \in dirEntries[target_dir]
                                    /\ "sha0.commit" \notin dirEntries[target_dir])

\* the submit to A raised a request error and A's module directory was
\* mirrored and marked all the same; B responded and is tagged alone
C24_Witness ==
    /\ pc = "done"
    /\ targets = <<"A", "B">>
    /\ \E k \in Ops("submit") : effects[k].target = "A" /\ RequestFailed(k)
    /\ \E n \in Ops("marker") : effects[n].target = "A"
    /\ dirEntries["/mnt/A/modules"] = {"mod.js", "sha1.commit"}
    /\ ~HasKey(target_responses, "A")
    /\ \E n \in Ops("tag") : effects[n].names = <<"B">>

\* C26: show is read-only. In a run of show no tag is created, no submit is
\* sent, no removal, copy or marker happens, every directory holds what it
\* held at the start, and every remote operation is a list query for a file
\* of a requested target.
C26_ShowIsReadOnly ==
    command = "show" =>
        /\ Ops("tag") = {}
        /\ Ops("submit") = {}
        /\ Ops("remove") \cup Ops("copy") \cup Ops("marker") = {}
        /\ dirEntries = [dir \in DirPaths |-> InitialEntries(dir)]
        /\ \A k \in DOMAIN effects :
              /\ effects[k].op = "find_list"
              /\ \E n \in DOMAIN targets : targets[n] = effects[k].target

\* show went through two targets with module directories, with a list query
\* that returned a row and one that raised, and printed its report
C26_Witness ==
    /\ command = "show"
    /\ pc = "done"
    /\ targets = <<"A", "B">>
    /\ HasKey(filemap.targets, "A") /\ HasKey(filemap.targets, "B")
    /\ get_module_directory(filemap.targets, "A") = "/mnt/A/modules"
    /\ get_module_directory(filemap.targets, "B") = "/mnt/B/modules"
    /\ \E k \in Ops("find_list") : effects[k].target = "A" /\ ~RequestFailed(k)
    /\ \E k \in Ops("find_list") : effects[k].target = "B" /\ RequestFailed(k)
    /\ target_responses # <<>>

====
